---- MODULE Spec2Model ----
(***************************************************************************)
(* DCmotor: the RPM estimator (dcmotor/Mencoder.py, class Encoder) and the *)
(* MQTT control/telemetry program (demoMQTT.py).                           *)
(*                                                                         *)
(* Three specifications, one per part of the program:                      *)
(*   SpecEnc    one Encoder object: constructor, _cbf, getdata, cancel.    *)
(*   Spec       main()'s control loop from line 279 on, the paho network   *)
(*              thread running on_message, and the exit path.              *)
(*   SpecCycle  the cadence-gated block of the loop (lines 287-300).       *)
(* Each starts in the state that main()'s set-up code (lines 205-280)      *)
(* describes for it; the switch speedSensorON (line 222) is an input.      *)
(*                                                                         *)
(* Numbers.  TLC's integers are 32-bit signed.  A pigpio tick is           *)
(* an unsigned 32-bit microsecond count and is held as two 16-bit halves   *)
(* [hi, lo].  The smoothed period is a Python float; it is held exactly as *)
(* a mixed number i + n/d (0 <= n < d).  The weighting is held in percent. *)
(***************************************************************************)
EXTENDS Integers, Sequences, FiniteSets, TLC

VARIABLES
    \* ---- Encoder object (Mencoder.py) ----
    rpmkey, pulses_per_rev, min_RPM, _watchdog, _new, _old,
    _high_tick, _period, outgoing, _cb,
    e_err,          \* exception raised by the last Encoder call, or "none"
    h_last,         \* kind of the last event delivered to _cbf
    h_run,          \* number of consecutive watchdog timeouts just delivered
    h_rising,       \* number of rising edges delivered so far
    h_prevPeriod,   \* _period before the last event
    h_prevRPM,      \* what getdata() returned before the last event
    h_delta,        \* tickDiff of the last rising edge that had one, or -1
    h_steady,       \* only rising edges so far, all with the same tickDiff
    h_prevTick,     \* _high_tick before the last rising edge
    \* ---- main() of demoMQTT.py ----
    speedSensorON, DCmotorSet, enc, mqtt_DC_speed, mqtt_DC_moving,
    deviceD, t0_sec,
    pc,             \* where the main thread is
    item,           \* position of the running for-loop in DCmotorSet.items()
    i, motor, speed,\* locals of the loop at lines 283-285
    exc,            \* exception the main thread is unwinding with, or "none"
    calls,          \* per actuator, the calls it has received
    gpio_clean,     \* GPIO.cleanup() has run
    now,            \* perf_counter(), in tenths of a second
    published,      \* what mqtt_client.publish() has been given
    h_applyEnded,   \* number of Apply phases that have ended
    h_read,         \* where the network thread was at each read of line 284
    h_dirty,        \* the send flags when the Publish phase started
    h_gateOpen,     \* line 287 found the gate open
    h_gate,         \* when line 287 ran, and the elapsed time it saw
    \* ---- set-up: mqtt_setup and setup_device ----
    MQTT_SUB_TOPIC, \* the subscription list
    printcolor,
    logged,         \* warnings and errors given to main_logger
    h_regs,         \* number of setup_device calls made
    h_reg,          \* the last setup_device call: arguments and state before
    \* ---- paho network thread running on_message ----
    mq_pc,          \* where the network thread is
    msg,            \* the message on_message was last called with
    mqtt_payload,   \* local of on_message
    mq_err,         \* exception that left on_message, or "none"
    h_cmdBefore     \* the command state when msg was delivered

encVars == <<rpmkey, pulses_per_rev, min_RPM, _watchdog, _new, _old,
             _high_tick, _period, outgoing, _cb, e_err,
             h_last, h_run, h_rising, h_prevPeriod, h_prevRPM,
             h_delta, h_steady, h_prevTick>>

progVars == <<speedSensorON, DCmotorSet, enc, pc, item, i, motor, speed, exc,
              calls, gpio_clean, h_applyEnded, h_read>>
cmdVars == <<mqtt_DC_speed, mqtt_DC_moving>>
cycVars == <<deviceD, t0_sec, now, published, h_dirty, h_gateOpen, h_gate>>
mqVars == <<mq_pc, msg, mqtt_payload, mq_err, h_cmdBefore>>
regVars == <<MQTT_SUB_TOPIC, printcolor, logged, h_regs, h_reg>>

vars == <<encVars, progVars, cmdVars, cycVars, mqVars, regVars>>

-----------------------------------------------------------------------------
(* Bounds of the model *)

MaxRising == 3
MaxTimeouts == 3
MaxRegs == 3

-----------------------------------------------------------------------------
(* Python values *)

None == [isNone |-> TRUE]

\* A float that holds the exact value i + n/d.
Num(w, n, d) == [isNone |-> FALSE, i |-> w, n |-> n, d |-> d]
Whole(w) == Num(w, 0, 1)

RECURSIVE GCD(_, _)
GCD(a, b) == IF b = 0 THEN a ELSE GCD(b, a % b)

\* i + n/d with n/d any non-negative fraction, brought to 0 <= n < d, lowest terms
Norm(w, n, d) ==
    LET g == GCD(n % d, d)
    IN  Num(w + (n \div d), (n % d) \div g, d \div g)

\* p < w, p + w for an integer w
NumLess(p, w) == p.i < w
NumAdd(p, w) == Num(p.i + w, p.n, p.d)
NumIsZero(p) == p.i = 0 /\ p.n = 0

-----------------------------------------------------------------------------
(* Edge timer source: 32-bit tick counter *)

Half == 65536

Tick(hi, lo) == [hi |-> hi, lo |-> lo]

\* the tick `delta` microseconds after t, on the wrapping 32-bit counter
TickAdd(t, delta) ==
    LET s == t.lo + (delta % Half)
    IN  Tick((t.hi + (delta \div Half) + (s \div Half)) % Half, s % Half)

\* variant: the halves are subtracted without a borrow between them
tickDiff_NoBorrow(t1, t2) ==
    LET dl == (t2.lo - t1.lo) % Half
        dh == (t2.hi - t1.hi) % Half
    IN  dh * Half + dl

\* pigpio.tickDiff(t1, t2): t2 - t1, plus 2^32 when that is negative
tickDiff(t1, t2) ==
    LET borrow == IF t2.lo < t1.lo THEN 1 ELSE 0
        dl == (t2.lo - t1.lo) % Half
        dh == (t2.hi - t1.hi - borrow) % Half
    IN  dh * Half + dl

\* tick of the first rising edge: 0, or 500 us before the counter wraps
StartTicks == {Tick(0, 0), Tick(65535, 65036)}

\* microseconds between one rising edge and the next
Deltas == {0, 1000, 300000, 1999900000}

-----------------------------------------------------------------------------
(* Encoder.__init__ *)

\* constructor arguments tried: weighting in percent, min_RPM, pulses_per_rev
WeightingArgs == {-10, 0, 50}
MinRPMArgs == {0, 5, 2000}
PulsesArgs == {1, 20}

\* lines 36-39
ClampMinRPM(m) == IF m > 1000 THEN 1000 ELSE IF m < 1 THEN 1 ELSE m

\* lines 45-48 (percent)
ClampWeighting(w) == IF w < 0 THEN 0 ELSE IF w > 99 THEN 99 ELSE w

EncoderInit(key, ppr, weighting, minrpm) ==
    /\ rpmkey = key
    /\ outgoing = <<>>
    /\ pulses_per_rev = ppr
    /\ min_RPM = ClampMinRPM(minrpm)
    /\ _watchdog = 200
    /\ _new = 100 - ClampWeighting(weighting)
    /\ _old = ClampWeighting(weighting)
    /\ _high_tick = None
    /\ _period = None
    /\ _cb = TRUE

-----------------------------------------------------------------------------
(* Encoder._cbf *)

\* variant: the two weights are exchanged
Smooth_WeightsSwapped(old, new, p, t) ==
    LET a == p.i \div 100
        b == p.i % 100
        c == t \div 100
        e == t % 100
    IN  Norm(new * a + old * c,
             (new * b + old * e) * p.d + new * p.n,
             100 * p.d)

\* line 68: (self._old * self._period) + (self._new * t), weights in percent
Smooth(old, new, p, t) ==
    LET a == p.i \div 100
        b == p.i % 100
        c == t \div 100
        e == t % 100
    IN  Norm(old * a + new * c,
             (old * b + new * e) * p.d + old * p.n,
             100 * p.d)

\* lines 64-72: level == 1
RisingPeriod(old, new, high, p, tick) ==
    IF high # None
    THEN LET t == tickDiff(high, tick)
         IN  IF p # None THEN Smooth(old, new, p, t) ELSE Whole(t)
    ELSE p

\* variant: a missing period counts as 0 and starts growing
TimeoutPeriod_NoneAsZero(p, watchdog) ==
    IF p # None
    THEN IF NumLess(p, 2000000000) THEN NumAdd(p, watchdog * 1000) ELSE p
    ELSE Whole(watchdog * 1000)

\* variant: the ceiling test is left out
TimeoutPeriod_NoCeiling(p, watchdog) ==
    IF p # None THEN NumAdd(p, watchdog * 1000) ELSE p

\* lines 73-76: level == 2
TimeoutPeriod(p, watchdog) ==
    IF p # None
    THEN IF NumLess(p, 2000000000) THEN NumAdd(p, watchdog * 1000) ELSE p
    ELSE p

-----------------------------------------------------------------------------
(* Encoder.getdata *)

\* line 84-86: 60000000.0 / (period * pulses_per_rev), 0.0 below min_RPM, then
\* int() of it (line 87).  [err, rpm]: the exception raised, or the integer.
ComputeRPM(p, ppr, minrpm) ==
    IF p = None THEN [err |-> "none", rpm |-> 0]
    ELSE IF NumIsZero(p) \/ ppr = 0
         THEN [err |-> "ZeroDivisionError", rpm |-> 0]
    ELSE IF ppr < 0 THEN [err |-> "none", rpm |-> 0]
    ELSE LET C == minrpm * ppr
             Q == 60000000 \div C
             R == 60000000 % C
             below == p.i > Q \/ (p.i = Q /\ p.n * C > R * p.d)
         IN  IF below THEN [err |-> "none", rpm |-> 0]
             ELSE [err |-> "none",
                   rpm |-> (60000000 * p.d) \div (ppr * (p.i * p.d + p.n))]

getdata_value == ComputeRPM(_period, pulses_per_rev, min_RPM)

-----------------------------------------------------------------------------
(* demoMQTT.py: values *)

PyStr(s) == [type |-> "str", s |-> s]
PyBytes(s) == [type |-> "bytes", s |-> s]

\* variant: the text is compared and the type ignored
PyEq_IgnoreType(a, b) == a.s = b.s

\* a == b for str and bytes operands: a str never equals a bytes
PyEq(a, b) == a.type = b.type /\ a.s = b.s

\* f"{v}": a str as it is, a bytes as its repr
FStr(v) == IF v.type = "bytes" THEN "b'" \o v.s \o "'" ELSE v.s

PyTuple(items) == [type |-> "tuple", items |-> items]

\* the actuator capability: an object with forward(), backwards(), stop()
DCMotor(name) == [type |-> "DCMotor", name |-> name]
DCMotorMethods == {"forward", "backwards", "stop"}

\* obj.name can be looked up
HasAttr(obj, name) == obj.type = "DCMotor" /\ name \in DCMotorMethods

\* class pcolor, lines 10-30
pcolorAttrs == {"LBLUE", "CYAN", "BLUE", "DBLUE", "WOLB", "LPURPLE", "PURPLE",
                "WOP", "GREEN", "DGREEN", "WOG", "YELLOW", "YELLOW2", "RED",
                "DRED", "WOR", "BOW", "BOLD", "ENDC"}

\* json.dumps(d)
JsonDumps(d) == [json |-> "text", of |-> d]

\* a payload: bytes that json.loads() turns into `value`, or refuses
JsonBytes(value) == [parses |-> TRUE, value |-> value]
Garbage == [parses |-> FALSE]
PyDict(d) == [type |-> "dict", d |-> d]
PyInt(n) == [type |-> "int", n |-> n]

-----------------------------------------------------------------------------
(* demoMQTT.py: what main() sets up, lines 205-280 *)

MQTT_CLIENT_ID == "pi"
MQTT_SUB_LVL1 == "nred2" \o MQTT_CLIENT_ID
MQTT_PUB_LVL1 == "pi2nred/"
msginterval == 5

\* lines 232-254: the two registrations
Registrations ==
    << [device |-> "dc_motor1", lvl2 |-> PyBytes("buggy"),
        publvl3 |-> MQTT_CLIENT_ID \o "speedSensor",
        data_keys |-> {"a0f", "a1f", "etc"}, rpmkey |-> "rpm1i"],
       [device |-> "dc_motor2", lvl2 |-> PyBytes("buggy"),
        publvl3 |-> MQTT_CLIENT_ID \o "speedSensor",
        data_keys |-> {"a0f", "a1f", "etc"}, rpmkey |-> "rpm2i"] >>

DeviceNames == {Registrations[r].device : r \in DOMAIN Registrations}
Reg(d) == CHOOSE r \in {Registrations[x] : x \in DOMAIN Registrations} : r.device = d

\* line 173: the topic a device subscribes to, one string per level
SubTopic(lvl2) == <<MQTT_SUB_LVL1, FStr(lvl2) \o "ZCMD", "+">>

\* lines 170-185: the entry setup_device leaves for a device.  Line 184 adds
\* the bytes lvl2 to a str; the topic is the text that the line spells.
DeviceEntry(r, send) ==
    [data |-> [key \in r.data_keys |-> 0],
     lvl2 |-> r.lvl2,
     pubtopic |-> MQTT_PUB_LVL1 \o r.lvl2.s \o "/" \o r.publvl3,
     send |-> send]

\* lines 241, 253: the Encoder of a device, with smoothed period p
EncObj(r, p) ==
    [rpmkey |-> r.rpmkey, pulses_per_rev |-> 20, min_RPM |-> ClampMinRPM(5),
     _period |-> p, outgoing |-> <<>>, _cb |-> TRUE]

\* Encoder.cancel() on such an object
cancel(e) == [e EXCEPT !._cb = FALSE]

\* lines 242, 254: DCmotorSet, a dict, as its items() in insertion order
MotorItems ==
    [r \in DOMAIN Registrations |->
        <<Registrations[r].device, DCMotor(Registrations[r].device)>>]

-----------------------------------------------------------------------------
(* demoMQTT.py: setup_device, lines 167-197 *)

\* arguments setup_device is called with
RegDeviceIds == DeviceNames \cup {"adc"}
RegLvl2 == {PyBytes("buggy"), PyStr("buggy"), PyStr("servo")}
RegKeys == {{"a0f", "a1f", "etc"}, {"a0f", "rpm"}}

\* variant: no device counts as registered
IsRegistered_Never(dd, device) == FALSE

\* line 169: deviceD.get(device) == None does not hold
IsRegistered(dd, device) == device \in DOMAIN dd

\* a + v for a str a: the str, or the exception
PyAddStr(a, v) ==
    IF v.type = "str" THEN [err |-> "none", s |-> a \o v.s]
    ELSE [err |-> "TypeError"]

\* topic in MQTT_SUB_TOPIC
InSubTopics(subs, topic) == \E n \in DOMAIN subs : subs[n] = topic

\* lines 179-182: the warnings for the keys of `device` that a registered
\* device already has, logged when the topic is already subscribed
Warning(device, other, key, topic) ==
    [level |-> "warning", device |-> device, item |-> other, key |-> key,
     topic |-> topic]
DuplicateWarnings(dd, device, data_keys, topic) ==
    { Warning(device, q[1], q[2], topic) :
        q \in {x \in (DOMAIN dd) \X data_keys : x[2] \in DOMAIN dd[x[1]].data} }

\* deviceD[device] = entry
SetEntry(dd, device, entry) ==
    [d \in DOMAIN dd \cup {device} |-> IF d = device THEN entry ELSE dd[d]]

\* setup_device(device, lvl2, publvl3, data_keys); an exception that leaves
\* it ends the program, set-up being outside main()'s try statement
setup_device ==
    /\ pc = "setup"
    /\ h_regs < MaxRegs
    /\ h_regs' = h_regs + 1
    /\ \E device \in RegDeviceIds, lvl2 \in RegLvl2, data_keys \in RegKeys :
         LET r == [device |-> device, lvl2 |-> lvl2, data_keys |-> data_keys,
                   publvl3 |-> MQTT_CLIENT_ID \o "speedSensor"]
             topic == SubTopic(lvl2)
             known == InSubTopics(MQTT_SUB_TOPIC, topic)
             started == [data |-> [key \in data_keys |-> 0], lvl2 |-> lvl2]
         IN  /\ h_reg' = [ran |-> TRUE, device |-> device, lvl2 |-> lvl2,
                          data_keys |-> data_keys, deviceD |-> deviceD,
                          subs |-> MQTT_SUB_TOPIC, logged |-> logged]
             /\ IF ~IsRegistered(deviceD, device)
                THEN /\ MQTT_SUB_TOPIC' = IF known THEN MQTT_SUB_TOPIC
                                          ELSE Append(MQTT_SUB_TOPIC, topic)
                     /\ logged' = IF known
                                  THEN logged \cup DuplicateWarnings(
                                           deviceD, device, data_keys, topic)
                                  ELSE logged
                     /\ IF PyAddStr(MQTT_PUB_LVL1, lvl2).err = "none"
                        THEN /\ deviceD' = SetEntry(deviceD, device,
                                                    DeviceEntry(r, FALSE))
                             /\ printcolor' = ~printcolor
                             /\ UNCHANGED <<pc, exc>>
                        ELSE /\ deviceD' = SetEntry(deviceD, device, started)
                             /\ exc' = PyAddStr(MQTT_PUB_LVL1, lvl2).err
                             /\ pc' = "exited"
                             /\ UNCHANGED printcolor
                ELSE /\ logged' = logged \cup
                                    {[level |-> "error", device |-> device]}
                     /\ exc' = "SystemExit"
                     /\ pc' = "exited"
                     /\ UNCHANGED <<deviceD, MQTT_SUB_TOPIC, printcolor>>
    /\ UNCHANGED <<speedSensorON, DCmotorSet, enc, item, i, motor, speed,
                   calls, gpio_clean, h_applyEnded, h_read>>
    /\ UNCHANGED <<t0_sec, now, published, h_dirty, h_gateOpen, h_gate>>
    /\ UNCHANGED <<encVars, cmdVars, mqVars>>

-----------------------------------------------------------------------------
(* demoMQTT.py: on_message, lines 125-137 *)

NoMsg == [topic |-> <<>>, payload |-> Garbage]

\* line 130: re.match(MQTT_REGEX, topic) with MQTT_REGEX of line 160; the
\* topic is held as its levels
ReMatch(topic) ==
    /\ Len(topic) >= 3
    /\ topic[1] = MQTT_SUB_LVL1
    /\ topic[2] # ""
    /\ topic[3] # ""

\* line 134: mqtt_topic[1] == b'buggyZCMD'
IsBuggyCommand(topic) == PyEq(PyStr(topic[2]), PyBytes("buggyZCMD"))

\* mqtt_payload[key]: the value, or the exception
Subscript(v, key) ==
    IF v.type # "dict" THEN [err |-> "TypeError"]
    ELSE IF key \notin DOMAIN v.d THEN [err |-> "KeyError"]
    ELSE [err |-> "none", v |-> v.d[key]]

\* topics and payloads the transport delivers
Topics ==
    { <<MQTT_SUB_LVL1, "buggyZCMD", "ctl">>,
      <<MQTT_SUB_LVL1, FStr(PyBytes("buggy")) \o "ZCMD", "ctl">>,
      <<MQTT_SUB_LVL1, "servoZCMD", "ctl">>,
      <<MQTT_SUB_LVL1, "buggyZCMD">>,
      <<"other", "buggyZCMD", "ctl">> }

Payloads ==
    { JsonBytes(PyDict([right |-> 50, left |-> -30, moving |-> "go"])),
      JsonBytes(PyDict([right |-> 150, left |-> -150, moving |-> "fast"])),
      JsonBytes(PyDict([left |-> 20])),
      JsonBytes(PyInt(5)),
      Garbage }

\* paho calls on_message(client, userdata, msg) on the network thread
Deliver ==
    /\ mq_pc = "idle"
    /\ pc # "exited"
    /\ \E t \in Topics, p \in Payloads : msg' = [topic |-> t, payload |-> p]
    /\ mq_pc' = "called"
    /\ h_cmdBefore' = <<mqtt_DC_speed, mqtt_DC_moving>>
    /\ UNCHANGED <<mqtt_payload, mq_err>>
    /\ UNCHANGED <<encVars, progVars, cmdVars, cycVars, regVars>>

\* the network thread runs on_message up to its next access to the command
\* state: lines 129-134, then 135, 136 and 137.  An exception that leaves
\* the callback ends the thread.
on_message ==
    /\ mq_pc \in {"called", "w_right", "w_left", "w_moving"}
    /\ pc # "exited"
    /\ CASE mq_pc = "called" ->
              IF ~ReMatch(msg.topic)
              THEN /\ mq_pc' = "idle"
                   /\ UNCHANGED <<mqtt_payload, mq_err, cmdVars>>
              ELSE IF ~msg.payload.parses
              THEN /\ mq_pc' = "raised"
                   /\ mq_err' = "JSONDecodeError"
                   /\ UNCHANGED <<mqtt_payload, cmdVars>>
              ELSE /\ mqtt_payload' = msg.payload.value
                   /\ mq_pc' = IF IsBuggyCommand(msg.topic) THEN "w_right"
                               ELSE "idle"
                   /\ UNCHANGED <<mq_err, cmdVars>>
         [] mq_pc = "w_right" ->
              LET r == Subscript(mqtt_payload, "right")
              IN  IF r.err = "none"
                  THEN /\ mqtt_DC_speed' = [mqtt_DC_speed EXCEPT ![1] = r.v]
                       /\ mq_pc' = "w_left"
                       /\ UNCHANGED <<mqtt_payload, mq_err, mqtt_DC_moving>>
                  ELSE /\ mq_pc' = "raised"
                       /\ mq_err' = r.err
                       /\ UNCHANGED <<mqtt_payload, cmdVars>>
         [] mq_pc = "w_left" ->
              LET r == Subscript(mqtt_payload, "left")
              IN  IF r.err = "none"
                  THEN /\ mqtt_DC_speed' = [mqtt_DC_speed EXCEPT ![2] = r.v]
                       /\ mq_pc' = "w_moving"
                       /\ UNCHANGED <<mqtt_payload, mq_err, mqtt_DC_moving>>
                  ELSE /\ mq_pc' = "raised"
                       /\ mq_err' = r.err
                       /\ UNCHANGED <<mqtt_payload, cmdVars>>
         [] mq_pc = "w_moving" ->
              LET r == Subscript(mqtt_payload, "moving")
              IN  IF r.err = "none"
                  THEN /\ mqtt_DC_moving' = r.v
                       /\ mq_pc' = "idle"
                       /\ UNCHANGED <<mqtt_payload, mq_err, mqtt_DC_speed>>
                  ELSE /\ mq_pc' = "raised"
                       /\ mq_err' = r.err
                       /\ UNCHANGED <<mqtt_payload, cmdVars>>
    /\ UNCHANGED <<msg, h_cmdBefore>>
    /\ UNCHANGED <<encVars, progVars, cycVars, regVars>>

-----------------------------------------------------------------------------
(* demoMQTT.py: the control loop, lines 281-305 *)

\* line 284: min(100, max(-100, c))
ClampSpeed(c) ==
    LET lo == IF c > -100 THEN c ELSE -100
    IN  IF lo < 100 THEN lo ELSE 100

\* line 285: the method the conditional expression picks, and its argument
MethodFor(s) == IF s > 0 THEN "forward" ELSE IF s < 0 THEN "backwards" ELSE "stop"
ArgFor(s) == IF s < 0 THEN -s ELSE s

\* line 283: the for statement takes the next (i, motor) of
\* enumerate(DCmotorSet.items()): motor is bound to the whole item
ApplyNext ==
    /\ pc = "apply"
    /\ IF item <= Len(DCmotorSet)
       THEN /\ i' = item - 1
            /\ motor' = PyTuple(DCmotorSet[item])
            /\ pc' = "read"
            /\ UNCHANGED h_applyEnded
       ELSE /\ pc' = "gate"
            /\ h_applyEnded' = h_applyEnded + 1
            /\ UNCHANGED <<i, motor>>
    /\ UNCHANGED <<speedSensorON, DCmotorSet, enc, item, speed, exc, calls,
                   gpio_clean, h_read>>
    /\ UNCHANGED <<encVars, cmdVars, cycVars, mqVars, regVars>>

\* line 284
ApplyRead ==
    /\ pc = "read"
    /\ speed' = ClampSpeed(mqtt_DC_speed[i + 1])
    /\ h_read' = h_read \cup {mq_pc}
    /\ pc' = "call"
    /\ UNCHANGED <<speedSensorON, DCmotorSet, enc, item, i, motor, exc, calls,
                   gpio_clean, h_applyEnded>>
    /\ UNCHANGED <<encVars, cmdVars, cycVars, mqVars, regVars>>

\* line 285: the method is looked up on motor and called
ApplyCall ==
    /\ pc = "call"
    /\ IF HasAttr(motor, MethodFor(speed))
       THEN /\ calls' = [calls EXCEPT ![motor.name] =
                            Append(@, [op |-> MethodFor(speed),
                                       mag |-> ArgFor(speed)])]
            /\ item' = item + 1
            /\ pc' = "apply"
            /\ UNCHANGED <<exc, h_applyEnded>>
       ELSE /\ exc' = "AttributeError"
            /\ pc' = "finally"
            /\ h_applyEnded' = h_applyEnded + 1
            /\ UNCHANGED <<calls, item>>
    /\ UNCHANGED <<speedSensorON, DCmotorSet, enc, i, motor, speed,
                   gpio_clean, h_read>>
    /\ UNCHANGED <<encVars, cmdVars, cycVars, mqVars, regVars>>

\* Ctrl-C: KeyboardInterrupt is raised in the main thread inside the try
Interrupt ==
    /\ pc \in {"apply", "read", "call"}
    /\ exc' = "KeyboardInterrupt"
    /\ pc' = "except"
    /\ UNCHANGED <<speedSensorON, DCmotorSet, enc, item, i, motor, speed, calls,
                   gpio_clean, h_applyEnded, h_read>>
    /\ UNCHANGED <<encVars, cmdVars, cycVars, mqVars, regVars>>

\* lines 301-302: the handler formats pcolor.WARNING into its log line
Except ==
    /\ pc = "except"
    /\ exc' = IF "WARNING" \in pcolorAttrs THEN "none" ELSE "AttributeError"
    /\ pc' = "finally"
    /\ UNCHANGED <<speedSensorON, DCmotorSet, enc, item, i, motor, speed, calls,
                   gpio_clean, h_applyEnded, h_read>>
    /\ UNCHANGED <<encVars, cmdVars, cycVars, mqVars, regVars>>

\* lines 303-305, and the process ends (with the exception, if one is left)
Finally ==
    /\ pc = "finally"
    /\ gpio_clean' = TRUE
    /\ pc' = "exited"
    /\ UNCHANGED <<speedSensorON, DCmotorSet, enc, item, i, motor, speed, exc,
                   calls, h_applyEnded, h_read>>
    /\ UNCHANGED <<encVars, cmdVars, cycVars, mqVars, regVars>>

-----------------------------------------------------------------------------
(* demoMQTT.py: the cadence-gated block, lines 287-300 *)

MaxNow == 8

SendFlags(dd) == [d \in DOMAIN dd |-> dd[d].send]

\* line 296
ShouldPublish(entry) == entry.send

\* variant: the flag is left set
ClearSend_Keep(dd, device) == dd

\* line 299
ClearSend(dd, device) == [dd EXCEPT ![device].send = FALSE]

\* variant: the gate opens when the elapsed time equals the interval, too
GateOpen_AtLeast(elapsed, interval) == elapsed >= interval

\* line 287: (perf_counter() - t0_sec) > msginterval
GateOpen(elapsed, interval) == elapsed > interval

\* time passes
ClockTick ==
    /\ pc \in {"gate", "sample", "publish", "reset"}
    /\ now < MaxNow
    /\ now' = now + 1
    /\ UNCHANGED <<deviceD, t0_sec, published, h_dirty, h_gateOpen, h_gate>>
    /\ UNCHANGED <<encVars, progVars, cmdVars, mqVars, regVars>>

\* lines 287-288
Gate ==
    /\ pc = "gate"
    /\ h_gate' = [ran |-> TRUE, at |-> now, elapsed |-> now - t0_sec]
    /\ IF GateOpen(now - t0_sec, msginterval)
       THEN /\ h_gateOpen' = TRUE
            /\ pc' = IF speedSensorON THEN "sample" ELSE "publish"
            /\ item' = 1
            /\ h_dirty' = IF speedSensorON THEN h_dirty ELSE SendFlags(deviceD)
       ELSE /\ pc' = "while"
            /\ UNCHANGED <<item, h_gateOpen, h_dirty>>
    /\ UNCHANGED <<deviceD, t0_sec, now, published>>
    /\ UNCHANGED <<speedSensorON, DCmotorSet, enc, i, motor, speed, exc,
                   calls, gpio_clean, h_applyEnded, h_read>>
    /\ UNCHANGED <<encVars, cmdVars, mqVars, regVars>>

\* lines 289-293, one device
Sample ==
    /\ pc = "sample"
    /\ LET device == DCmotorSet[item][1]
           e == enc[device]
           r == ComputeRPM(e._period, e.pulses_per_rev, e.min_RPM)
           out == [key \in {e.rpmkey} |-> r.rpm]
           dd == [deviceD EXCEPT ![device].data = out, ![device].send = TRUE]
       IN  IF r.err = "none"
           THEN /\ enc' = [enc EXCEPT ![device].outgoing = out]
                /\ deviceD' = dd
                /\ IF item < Len(DCmotorSet)
                   THEN /\ item' = item + 1
                        /\ UNCHANGED <<pc, h_dirty>>
                   ELSE /\ item' = 1
                        /\ pc' = "publish"
                        /\ h_dirty' = SendFlags(dd)
                /\ UNCHANGED exc
           ELSE /\ exc' = r.err
                /\ pc' = "finally"
                /\ UNCHANGED <<enc, deviceD, item, h_dirty>>
    /\ UNCHANGED <<t0_sec, now, published, h_gateOpen, h_gate>>
    /\ UNCHANGED <<speedSensorON, DCmotorSet, i, motor, speed, calls,
                   gpio_clean, h_applyEnded, h_read>>
    /\ UNCHANGED <<encVars, cmdVars, mqVars, regVars>>

\* lines 295-299, one device
Publish ==
    /\ pc = "publish"
    /\ LET device == DCmotorSet[item][1]
       IN  IF ShouldPublish(deviceD[device])
           THEN /\ published' = Append(published,
                                   [device |-> device,
                                    topic |-> deviceD[device].pubtopic,
                                    payload |-> JsonDumps(deviceD[device].data)])
                /\ deviceD' = ClearSend(deviceD, device)
           ELSE UNCHANGED <<published, deviceD>>
    /\ IF item < Len(DCmotorSet)
       THEN item' = item + 1 /\ UNCHANGED pc
       ELSE item' = 1 /\ pc' = "reset"
    /\ UNCHANGED <<t0_sec, now, h_dirty, h_gateOpen, h_gate>>
    /\ UNCHANGED <<speedSensorON, DCmotorSet, enc, i, motor, speed, exc,
                   calls, gpio_clean, h_applyEnded, h_read>>
    /\ UNCHANGED <<encVars, cmdVars, mqVars, regVars>>

\* line 300
Reset ==
    /\ pc = "reset"
    /\ t0_sec' = now
    /\ pc' = "while"
    /\ UNCHANGED <<deviceD, now, published, h_dirty, h_gateOpen, h_gate>>
    /\ UNCHANGED <<speedSensorON, DCmotorSet, enc, item, i, motor, speed, exc,
                   calls, gpio_clean, h_applyEnded, h_read>>
    /\ UNCHANGED <<encVars, cmdVars, mqVars, regVars>>

-----------------------------------------------------------------------------
(* Initial states *)

\* no Encoder object under test
EncOff ==
    /\ EncoderInit("", 20, 0, 5)
    /\ e_err = "none"
    /\ h_last = "init"
    /\ h_run = 0
    /\ h_rising = 0
    /\ h_prevPeriod = None
    /\ h_prevRPM = [err |-> "none", rpm |-> 0]
    /\ h_delta = -1
    /\ h_steady = TRUE
    /\ h_prevTick = None

\* lines 228-229
CmdInit ==
    /\ mqtt_DC_speed = <<0, 0>>
    /\ mqtt_DC_moving = "start-up"

MqInit ==
    /\ mq_pc = "idle"
    /\ msg = NoMsg
    /\ mqtt_payload = PyInt(0)
    /\ mq_err = "none"
    /\ h_cmdBefore = <<<<0, 0>>, "start-up">>

\* the main thread at `at`, with the estimators' periods given by periods
ProgInit(at, sensor, periods) ==
    /\ speedSensorON = sensor
    /\ DCmotorSet = MotorItems
    /\ enc = IF sensor THEN [d \in DeviceNames |-> EncObj(Reg(d), periods[d])]
             ELSE <<>>
    /\ pc = at
    /\ item = 1
    /\ i = 0
    /\ motor = None
    /\ speed = 0
    /\ exc = "none"
    /\ calls = [d \in DeviceNames |-> <<>>]
    /\ gpio_clean = FALSE
    /\ h_applyEnded = 0
    /\ h_read = {}

CycInit(flags) ==
    /\ deviceD = [d \in DeviceNames |-> DeviceEntry(Reg(d), flags[d])]
    /\ t0_sec = 0
    /\ now = 0
    /\ published = <<>>
    /\ h_dirty = [d \in DeviceNames |-> FALSE]
    /\ h_gateOpen = FALSE
    /\ h_gate = [ran |-> FALSE]

\* lines 158, 217, 236, 248: what the two registrations leave
RegDone ==
    /\ MQTT_SUB_TOPIC = <<SubTopic(Registrations[1].lvl2)>>
    /\ printcolor = TRUE
    /\ logged = DuplicateWarnings(
                    [d \in {Registrations[1].device} |->
                        DeviceEntry(Registrations[1], FALSE)],
                    Registrations[2].device, Registrations[2].data_keys,
                    SubTopic(Registrations[2].lvl2))
    /\ h_regs = 0
    /\ h_reg = [ran |-> FALSE]

\* no program running
ProgOff ==
    /\ ProgInit("off", FALSE, [d \in DeviceNames |-> None])
    /\ CmdInit
    /\ MqInit
    /\ CycInit([d \in DeviceNames |-> FALSE])
    /\ RegDone

\* the program at line 232, before the first registration
InitReg ==
    /\ EncOff
    /\ ProgInit("setup", FALSE, [d \in DeviceNames |-> None])
    /\ CmdInit
    /\ MqInit
    /\ deviceD = <<>>
    /\ t0_sec = 0
    /\ now = 0
    /\ published = <<>>
    /\ h_dirty = [d \in DeviceNames |-> FALSE]
    /\ h_gateOpen = FALSE
    /\ h_gate = [ran |-> FALSE]
    /\ MQTT_SUB_TOPIC = <<>>
    /\ printcolor = TRUE
    /\ logged = {}
    /\ h_regs = 0
    /\ h_reg = [ran |-> FALSE]

NextReg == setup_device

SpecReg == InitReg /\ [][NextReg]_vars

\* the program at line 281, set up as lines 205-280 say
Init ==
    /\ EncOff
    /\ \E sensor \in BOOLEAN :
          ProgInit("apply", sensor, [d \in DeviceNames |-> None])
    /\ CmdInit
    /\ MqInit
    /\ CycInit([d \in DeviceNames |-> FALSE])
    /\ RegDone

Next ==
    \/ ApplyNext \/ ApplyRead \/ ApplyCall
    \/ Interrupt \/ Except \/ Finally
    \/ Deliver \/ on_message

Spec == Init /\ [][Next]_vars

\* smoothed periods an estimator may hold when it is sampled
CyclePeriods == {None, Whole(0), Whole(1000)}

\* the program at line 287 of some iteration
InitCycle ==
    /\ EncOff
    /\ \E sensor \in BOOLEAN, periods \in [DeviceNames -> CyclePeriods] :
          /\ sensor \/ \A d \in DeviceNames : periods[d] = None
          /\ ProgInit("gate", sensor, periods)
    /\ CmdInit
    /\ MqInit
    /\ \E flags \in [DeviceNames -> BOOLEAN] : CycInit(flags)
    /\ RegDone

NextCycle == ClockTick \/ Gate \/ Sample \/ Publish \/ Reset \/ Finally

SpecCycle == InitCycle /\ [][NextCycle]_vars

-----------------------------------------------------------------------------
(* Encoder: actions *)

InitEnc ==
    /\ \E w \in WeightingArgs, m \in MinRPMArgs, ppr \in PulsesArgs :
          EncoderInit("rpmi", ppr, w, m)
    /\ e_err = "none"
    /\ h_last = "init"
    /\ h_run = 0
    /\ h_rising = 0
    /\ h_prevPeriod = None
    /\ h_prevRPM = [err |-> "none", rpm |-> 0]
    /\ h_delta = -1
    /\ h_steady = TRUE
    /\ h_prevTick = None
    /\ ProgOff

History(kind) ==
    /\ h_last' = kind
    /\ h_run' = IF kind = "timeout" THEN h_run + 1 ELSE 0
    /\ h_rising' = IF kind = "rising" THEN h_rising + 1 ELSE h_rising
    /\ h_prevPeriod' = _period
    /\ h_prevRPM' = getdata_value

cfgVars == <<rpmkey, pulses_per_rev, min_RPM, _watchdog, _new, _old>>

\* the edge timer source calls _cbf(gpio, 1, tick)
Rising ==
    /\ _cb
    /\ h_rising < MaxRising
    /\ \E tick \in (IF _high_tick = None THEN StartTicks
                    ELSE {TickAdd(_high_tick, d) : d \in Deltas}) :
          /\ _period' = RisingPeriod(_old, _new, _high_tick, _period, tick)
          /\ _high_tick' = tick
          /\ h_delta' = IF _high_tick = None THEN h_delta
                        ELSE tickDiff(_high_tick, tick)
          /\ h_steady' = (h_steady /\ (h_delta = -1 \/ h_delta' = h_delta))
          /\ h_prevTick' = _high_tick
    /\ History("rising")
    /\ UNCHANGED <<cfgVars, outgoing, _cb, e_err>>
    /\ UNCHANGED <<progVars, cmdVars, cycVars, mqVars, regVars>>

\* the edge timer source calls _cbf(gpio, 2, tick)
Timeout ==
    /\ _cb
    /\ h_run < MaxTimeouts
    /\ _period' = TimeoutPeriod(_period, _watchdog)
    /\ History("timeout")
    /\ h_steady' = FALSE
    /\ UNCHANGED <<h_delta, h_prevTick>>
    /\ UNCHANGED <<cfgVars, _high_tick, outgoing, _cb, e_err>>
    /\ UNCHANGED <<progVars, cmdVars, cycVars, mqVars, regVars>>

\* a caller calls getdata()
GetData ==
    /\ LET r == getdata_value
       IN  /\ e_err' = r.err
           /\ outgoing' = IF r.err = "none" THEN [key \in {rpmkey} |-> r.rpm]
                          ELSE outgoing
    /\ UNCHANGED <<cfgVars, _high_tick, _period, _cb,
                   h_last, h_run, h_rising, h_prevPeriod, h_prevRPM,
                   h_delta, h_steady, h_prevTick>>
    /\ UNCHANGED <<progVars, cmdVars, cycVars, mqVars, regVars>>

\* lines 90-95: cancel(); the watchdog and the callback are released
Cancel ==
    /\ _cb' = FALSE
    /\ UNCHANGED <<cfgVars, _high_tick, _period, outgoing, e_err,
                   h_last, h_run, h_rising, h_prevPeriod, h_prevRPM,
                   h_delta, h_steady, h_prevTick>>
    /\ UNCHANGED <<progVars, cmdVars, cycVars, mqVars, regVars>>

NextEnc == Rising \/ Timeout \/ GetData \/ Cancel

SpecEnc == InitEnc /\ [][NextEnc]_vars

\* constructor arguments of any sign and size: weighting in percent,
\* pulses_per_rev
CfgWeightingArgs == {-10, 50, 150}
CfgPulsesArgs == {-20, 0, 20}

InitCfg ==
    /\ \E w \in CfgWeightingArgs, m \in MinRPMArgs, ppr \in CfgPulsesArgs :
          EncoderInit("rpmi", ppr, w, m)
    /\ e_err = "none"
    /\ h_last = "init"
    /\ h_run = 0
    /\ h_rising = 0
    /\ h_prevPeriod = None
    /\ h_prevRPM = [err |-> "none", rpm |-> 0]
    /\ h_delta = -1
    /\ h_steady = TRUE
    /\ h_prevTick = None
    /\ ProgOff

SpecCfg == InitCfg /\ [][NextEnc]_vars

-----------------------------------------------------------------------------
(* Claims about the control loop and the router, checked under Spec *)

\* MQTT topic filter match, "+" standing for any one level
TopicMatches(filter, topic) ==
    /\ Len(filter) = Len(topic)
    /\ \A n \in DOMAIN filter : filter[n] = "+" \/ filter[n] = topic[n]

\* the topic matches the inbound pattern that a device registered (line 173)
IsCommandTopic(topic) ==
    \E d \in DeviceNames : TopicMatches(SubTopic(Reg(d).lvl2), topic)

\* the payload is a JSON object with right, left and moving
WellFormed(payload) ==
    /\ payload.parses
    /\ payload.value.type = "dict"
    /\ {"right", "left", "moving"} \subseteq DOMAIN payload.value.d

\* on_message has returned (or raised) for msg
Handled == msg # NoMsg /\ mq_pc \in {"idle", "raised"}

\* C1: in every iteration of the loop each actuator receives exactly one of
\* forward(m), backward(m), stop(), with m within 0..100.
C1_ApplyCallsEveryActuator ==
    h_applyEnded > 0 =>
        \A d \in DeviceNames :
            /\ Len(calls[d]) = h_applyEnded
            /\ \A n \in DOMAIN calls[d] : calls[d][n].mag \in 0..100

\* C2: a well-formed command payload on a topic matching a device's inbound
\* pattern sets the command state to its right / left / moving.
C2_CommandRouted ==
    (Handled /\ IsCommandTopic(msg.topic) /\ WellFormed(msg.payload)) =>
        /\ mqtt_DC_speed = <<msg.payload.value.d.right, msg.payload.value.d.left>>
        /\ mqtt_DC_moving = msg.payload.value.d.moving

\* C3: a malformed payload on a matched topic is dropped: no error leaves the
\* callback, the command state is what it was, and the router keeps routing.
C3_MalformedDropped ==
    (Handled /\ IsCommandTopic(msg.topic) /\ ~WellFormed(msg.payload)) =>
        /\ mq_err = "none"
        /\ mq_pc = "idle"
        /\ <<mqtt_DC_speed, mqtt_DC_moving>> = h_cmdBefore

C5_StopOnExit ==
    pc = "exited" =>
        \A d \in DeviceNames :
            /\ calls[d] # <<>>
            /\ calls[d][Len(calls[d])].op = "stop"

C15_UnmatchedNoOp ==
    (Handled /\ ~IsCommandTopic(msg.topic)) =>
        /\ mq_err = "none"
        /\ mq_pc = "idle"
        /\ <<mqtt_DC_speed, mqtt_DC_moving>> = h_cmdBefore
        /\ deviceD = [d \in DeviceNames |-> DeviceEntry(Reg(d), FALSE)]

\* the payload is a JSON object that names some, not all, command fields
NamesSomeFields(payload) ==
    /\ payload.parses
    /\ payload.value.type = "dict"
    /\ DOMAIN payload.value.d # {}
    /\ DOMAIN payload.value.d \subseteq {"right", "left", "moving"}
    /\ DOMAIN payload.value.d # {"right", "left", "moving"}

\* the value that routing `payload` leaves in a field that held `before`
FieldAfter(payload, field, before) ==
    IF field \in DOMAIN payload.value.d THEN payload.value.d[field] ELSE before

\* C17: a parseable payload that names only some command fields, on a topic
\* matching a device's inbound pattern, replaces exactly the named fields and
\* leaves the others at their previous values.
C17_PartialUpdate ==
    (Handled /\ IsCommandTopic(msg.topic) /\ NamesSomeFields(msg.payload)) =>
        /\ mq_err = "none"
        /\ mqtt_DC_speed =
              << FieldAfter(msg.payload, "right", h_cmdBefore[1][1]),
                 FieldAfter(msg.payload, "left", h_cmdBefore[1][2]) >>
        /\ mqtt_DC_moving = FieldAfter(msg.payload, "moving", h_cmdBefore[2])

\* C18: when the stop signal arrives inside an Apply phase (the loop holds
\* an actuator in `motor`), the exit path starts only after every actuator
\* has received its call of this iteration.
C18_ApplyRunsToEnd ==
    (pc = "except" /\ exc = "KeyboardInterrupt" /\ motor # None) =>
        \A d \in DeviceNames : Len(calls[d]) = h_applyEnded + 1

-----------------------------------------------------------------------------
(* Claims about the device registry, checked under SpecReg *)

\* the last setup_device call named a device id that was already registered
DuplicateId == h_reg.ran /\ h_reg.device \in DOMAIN h_reg.deviceD

\* C13: registering a device id that is already present fails and ends
\* set-up, and leaves the entries of the registered devices and the
\* subscription list as they were.
C13_DuplicateIdFails ==
    DuplicateId =>
        /\ exc = "SystemExit"
        /\ pc = "exited"
        /\ deviceD = h_reg.deviceD
        /\ MQTT_SUB_TOPIC = h_reg.subs

\* a registered id has been registered again, with another lvl2 and other
\* keys than it has
C13_Witness ==
    /\ DuplicateId
    /\ pc = "exited"
    /\ deviceD[h_reg.device].lvl2 # h_reg.lvl2
    /\ DOMAIN deviceD[h_reg.device].data # h_reg.data_keys

\* the keys of the last call that a registered device already had
OverlappingKeys ==
    { key \in h_reg.data_keys :
        \E other \in DOMAIN h_reg.deviceD :
            key \in DOMAIN h_reg.deviceD[other].data }

\* C14: registering a new device id whose keys overlap those of a registered
\* device succeeds, the device is added with all its keys, and a collision
\* warning is logged for each overlapping key, whatever the lvl2 values are.
C14_KeyCollisionWarned ==
    (h_reg.ran /\ ~DuplicateId /\ OverlappingKeys # {}) =>
        /\ exc = "none"
        /\ pc = "setup"
        /\ h_reg.device \in DOMAIN deviceD
        /\ DOMAIN deviceD[h_reg.device].data = h_reg.data_keys
        /\ \A key \in OverlappingKeys :
              \E w \in logged \ h_reg.logged :
                  w.level = "warning" /\ w.key = key

-----------------------------------------------------------------------------
(* Claims about the gated block, checked under SpecCycle *)

PublishedFor(d) == {n \in DOMAIN published : published[n].device = d}

\* C7: in an open-gate cycle every device that is dirty when the Publish
\* phase starts is published exactly once, with its outbound topic and its
\* serialized telemetry, no clean device is published, and after the phase
\* no device is dirty.
C7_PublishPhase ==
    (h_gateOpen /\ pc \in {"reset", "while"}) =>
        \A d \in DeviceNames :
            /\ Cardinality(PublishedFor(d)) = IF h_dirty[d] THEN 1 ELSE 0
            /\ \A n \in PublishedFor(d) :
                  /\ published[n].topic = deviceD[d].pubtopic
                  /\ published[n].payload = JsonDumps(deviceD[d].data)
            /\ ~deviceD[d].send

\* a Publish phase that started with one dirty and one clean device is over
C7_Witness ==
    /\ pc = "reset"
    /\ \E d \in DeviceNames : h_dirty[d]
    /\ \E d \in DeviceNames : ~h_dirty[d]
    /\ Len(published) = 1

\* C19 as stated: the Sample and Publish phases run in an iteration exactly
\* when the time elapsed since the last timer reset is >= the cadence.
C19_GateAtLeast ==
    h_gate.ran => (h_gateOpen <=> h_gate.elapsed >= msginterval)

\* C19 amended: they run exactly when the elapsed time is > the cadence; when
\* it equals the cadence, or is smaller, they do not run.
C19_GateStrictlyAfter ==
    h_gate.ran =>
        /\ h_gateOpen <=> h_gate.elapsed > msginterval
        /\ ~h_gateOpen => (pc = "while" /\ published = <<>>)

\* line 287 ran when exactly the cadence had elapsed, and the iteration is
\* over with the gated phases skipped
C19_Witness ==
    /\ h_gate.ran
    /\ h_gate.elapsed = msginterval
    /\ ~h_gateOpen
    /\ pc = "while"

\* C20: after a gated cycle the cadence timer holds the time at which the
\* gate was found open, not the time at which publishing finished.
C20_ResetToGateTime ==
    (h_gateOpen /\ pc = "while") => t0_sec = h_gate.at

-----------------------------------------------------------------------------
(* Claims about the estimator, checked under SpecEnc *)

\* C8: for every sequence of RISING and TIMEOUT events, sample() does not
\* fail and returns an RPM >= 0.
C8_SampleNeverFails ==
    /\ e_err = "none"
    /\ \A key \in DOMAIN outgoing : outgoing[key] >= 0

\* what one TIMEOUT does to a smoothed period, as C9 states it
C9_PeriodStep ==
    IF h_prevPeriod.i < 2000000000
    THEN _period = Num(h_prevPeriod.i + 200000, h_prevPeriod.n, h_prevPeriod.d)
    ELSE _period = h_prevPeriod

C10_NoEdgeSampleZero ==
    h_rising = 0 =>
        /\ _period = None
        /\ getdata_value = [err |-> "none", rpm |-> 0]
        /\ e_err = "none"
        /\ \A key \in DOMAIN outgoing : outgoing[key] = 0

\* sample() has been called after two TIMEOUTs and no RISING
C10_Witness ==
    /\ h_rising = 0
    /\ h_run >= 2
    /\ DOMAIN outgoing = {rpmkey}
    /\ outgoing[rpmkey] = 0

\* C11: with weighting 0 and RISING events a constant delta d apart, once two
\* RISING events have been delivered sample() returns 60e6/(d*pulsesPerRev)
\* (its whole part), and so after every further RISING event.
C11_SteadyStateRPM ==
    (h_steady /\ h_rising >= 2 /\ _old = 0) =>
        /\ getdata_value.err = "none"
        /\ h_delta > 0 =>
              getdata_value.rpm = (60000000 \div h_delta) \div pulses_per_rev

\* C21: a RISING event that finds a previous rising timestamp uses as the
\* inter-pulse interval the forward difference (new - previous) modulo 2^32:
\* it is not negative, and the previous tick advanced by it on the wrapping
\* counter is the new tick; the smoothed period is made from that interval.
\* A first RISING event records its timestamp and creates no smoothed period.
C21_ForwardDifference ==
    h_last = "rising" =>
        IF h_prevTick = None
        THEN /\ _period = None
             /\ _high_tick \in StartTicks
        ELSE /\ h_delta >= 0
             /\ TickAdd(h_prevTick, h_delta) = _high_tick
             /\ _period = IF h_prevPeriod = None THEN Whole(h_delta)
                           ELSE Smooth(_old, _new, h_prevPeriod, h_delta)

\* the counter wrapped between two rising edges 1000 us apart
C21_Witness ==
    /\ h_last = "rising"
    /\ h_prevTick = Tick(65535, 65036)
    /\ _high_tick = Tick(0, 500)
    /\ h_delta = 1000
    /\ _period = Whole(1000)

-----------------------------------------------------------------------------
(* Claims about the estimator with any constructor arguments, checked under
   SpecCfg *)

\* the signed number whole + num/den, as i + f/den with 0 <= f < den
Split(whole, num, den) == [i |-> whole + (num \div den), f |-> num % den]

\* the absolute value of such a number
AbsSplit(v, den) ==
    IF v.i >= 0 THEN v
    ELSE IF v.f = 0 THEN [i |-> -v.i, f |-> 0]
    ELSE [i |-> -v.i - 1, f |-> den - v.f]

SplitLeq(a, b) == a.i < b.i \/ (a.i = b.i /\ a.f <= b.f)

\* |new - p|: the change of the smoothed period in the last RISING event,
\* in units of 1/(100 * p.d)
C12_Change ==
    LET L == 100 * h_prevPeriod.d
    IN  AbsSplit(Split(_period.i - h_prevPeriod.i,
                       _period.n * (L \div _period.d) - 100 * h_prevPeriod.n,
                       L), L)

\* (1 - w) * |t - p| for the delta t of the last RISING event, w = _old / 100
C12_Bound ==
    LET L == 100 * h_prevPeriod.d
        D == h_delta - h_prevPeriod.i
    IN  AbsSplit(Split((100 - _old) * (D \div 100),
                       (100 - _old) * ((D % 100) * h_prevPeriod.d
                                        - h_prevPeriod.n),
                       L), L)

C16_ConfigValid ==
    /\ _old \in 0..99
    /\ _new = 100 - _old
    /\ min_RPM \in 1..1000
    /\ pulses_per_rev > 0

====
